---- MODULE Spec2Model ----
(***************************************************************************)
(* MapInterface (storage-facade-map): an adapter that binds the            *)
(* storage-facade operation set to an in-memory Map, in a sync and an      *)
(* async form.  The model keeps the adapter's fields (storage, isDeleted,  *)
(* storageName), the JavaScript heap the stored and the caller's objects   *)
(* live in (structuredClone allocates in it), and what the caller holds:   *)
(* the value it passes to setItem and the result of its last call.         *)
(***************************************************************************)
EXTENDS Integers, Sequences, FiniteSets, TLC

\* ------------------------------------------------------------------ bounds
MaxNum == 1
MaxAddr == 12
MaxIndex == 2
MaxPending == 2

Keys == {"a", "b"}
Nums == 1..MaxNum
Addrs == 1..MaxAddr
Indexes == (0 - 1)..MaxIndex

\* ------------------------------------------------------------- JS values
\* A value is a record [t, n, s]: its type tag, a number (the number itself,
\* or the heap address of an object) and a string (a key returned by key()).
V(t, n, s) == [t |-> t, n |-> n, s |-> s]
Undefined == V("undefined", 0, "")
Null == V("null", 0, "")
Func == V("function", 0, "")
Num(n) == V("number", n, "")
Str(s) == V("string", 0, s)
Ref(a) == V("object", a, "")
OkValue == V("Ok", 0, "")
Free == V("free", 0, "")
IsRef(v) == v.t = "object"

interfaceName == "MapInterface"
defaultAsyncMode == FALSE
defaultStorageName == "storage"
NoName == "<undefined>"
SetupNames == {NoName, "custom"}

VARIABLES storage, isDeleted, storageName, asyncMode, heap, arg, res, outcome, last

\* The keys that have an entry, in the order in which the entries were
\* made: the record of what the caller did, kept beside the Map.
VARIABLES inserted

\* The promises of the async calls the caller has not awaited, the
\* microtask queue, and the order in which the promises were settled.
VARIABLES promises, jobs, settled, delivered, running

\* Two adapters side by side: the Map objects, and the fields of each
\* instance (its storage field refers to a Map object).
VARIABLES maps, inst, target

asyncVars == <<promises, jobs, settled, delivered, running>>

twoVars == <<maps, inst, target>>

vars == <<storage, isDeleted, storageName, asyncMode, heap, arg, res, outcome, last,
          inserted, promises, jobs, settled, delivered, running, maps, inst, target>>

\* ------------------------------------------------------------------ heap
\* An object is one heap cell holding the value of its single property
\* ({x: 1}, or {data: [1]} as a cell that refers to a second cell).
RECURSIVE ReachFrom(_, _)
ReachFrom(h, S) ==
  LET next == S \cup {h[a].n : a \in {b \in S : IsRef(h[b])}}
  IN IF next = S THEN S ELSE ReachFrom(h, next)

Roots(vs) == {v.n : v \in {w \in vs : IsRef(w)}}

Reach(h, vs) == ReachFrom(h, Roots(vs))

\* The objects a value consists of, outermost first.
RECURSIVE Chain(_, _)
Chain(h, v) == IF IsRef(v) THEN <<v.n>> \o Chain(h, h[v.n]) ELSE << >>

RECURSIVE Chains(_, _)
Chains(h, vs) ==
  IF vs = << >> THEN << >> ELSE Chain(h, Head(vs)) \o Chains(h, Tail(vs))

RECURSIVE Dedupe(_)
Dedupe(s) ==
  IF s = << >> THEN << >>
  ELSE LET r == Dedupe(SubSeq(s, 1, Len(s) - 1))
       IN IF \E i \in DOMAIN r : r[i] = s[Len(s)] THEN r ELSE Append(r, s[Len(s)])

\* The live objects: those the values vs (what the caller holds, then what
\* the store holds) reach; the others are reclaimed. Addresses are not
\* observable, only whether two references are the same object, so the
\* live objects are kept at the addresses 1, 2, ... in this order.
Live(h, vs) == Dedupe(Chains(h, vs))

Move(order, v) ==
  IF IsRef(v) THEN Ref(CHOOSE i \in DOMAIN order : order[i] = v.n) ELSE v

Compact(h, order) ==
  [a \in Addrs |-> IF a <= Len(order) THEN Move(order, h[order[a]]) ELSE Free]

FreeAddrs(h) == {a \in Addrs : h[a] = Free}

NewAddr(h) == CHOOSE a \in FreeAddrs(h) : \A b \in FreeAddrs(h) : a <= b

\* The structure of a value, without the identity of its objects.
RECURSIVE DeepVal(_, _)
DeepVal(h, v) ==
  IF IsRef(v) THEN <<V("object", 0, "")>> \o DeepVal(h, h[v.n]) ELSE <<v>>

DeepEqual(h, v, w) == DeepVal(h, v) = DeepVal(h, w)

\* A copy of the outermost object only ({...value}): what it refers to is
\* shared with the original.
shallowClone(h, v) ==
  IF v = Func THEN [ok |-> FALSE, val |-> Undefined, heap |-> h]
  ELSE IF ~IsRef(v) THEN [ok |-> TRUE, val |-> v, heap |-> h]
  ELSE IF h[v.n] = Func THEN [ok |-> FALSE, val |-> Undefined, heap |-> h]
  ELSE LET a == NewAddr(h)
       IN [ok |-> TRUE, val |-> Ref(a), heap |-> [h EXCEPT ![a] = h[v.n]]]

\* structuredClone(value): a DataCloneError for a function anywhere in the
\* value, else a copy in which every object is a new object.
RECURSIVE structuredClone(_, _)
structuredClone(h, v) ==
  IF v = Func THEN [ok |-> FALSE, val |-> Undefined, heap |-> h]
  ELSE IF ~IsRef(v) THEN [ok |-> TRUE, val |-> v, heap |-> h]
  ELSE LET inner == structuredClone(h, h[v.n])
       IN IF ~inner.ok THEN [ok |-> FALSE, val |-> Undefined, heap |-> h]
          ELSE LET a == NewAddr(inner.heap)
               IN [ok |-> TRUE, val |-> Ref(a),
                   heap |-> [inner.heap EXCEPT ![a] = inner.val]]

\* ------------------------------------------------------------------- Map
\* Map<string, unknown>: the entries in insertion order.
Entry(k, v) == [k |-> k, v |-> v]

MapKeys(m) == {m[i].k : i \in DOMAIN m}

MapHas(m, k) == k \in MapKeys(m)

MapIndex(m, k) == CHOOSE i \in DOMAIN m : m[i].k = k

MapGet(m, k) == IF MapHas(m, k) THEN m[MapIndex(m, k)].v ELSE Undefined

\* A set that adds an entry even when the key has one.
MapSetAppend(m, k, v) == Append(m, Entry(k, v))

\* A set that makes the entry anew, behind the others, when the key has
\* one.
MapSetMoveLast(m, k, v) == Append(SelectSeq(m, LAMBDA e : e.k # k), Entry(k, v))

MapSet(m, k, v) ==
  IF MapHas(m, k) THEN [m EXCEPT ![MapIndex(m, k)] = Entry(k, v)]
  ELSE Append(m, Entry(k, v))

\* A delete that fills the gap with the last entry.
MapDeleteSwap(m, k) ==
  IF ~MapHas(m, k) THEN m
  ELSE [i \in 1..(Len(m) - 1) |-> IF i = MapIndex(m, k) THEN m[Len(m)] ELSE m[i]]

MapDelete(m, k) == SelectSeq(m, LAMBDA e : e.k # k)

MapClear(m) == << >>

MapSize(m) == Len(m)

MapValues(m) == {m[i].v : i \in DOMAIN m}

\* Array.from(map)[index]?.[0]
ArrayFromKey(m, index) ==
  IF index + 1 \in DOMAIN m THEN Str(m[index + 1].k) ELSE Undefined

\* ------------------------------------------------------------- instances
\* new MapInterface(): the field initialisers give the instance a new Map
\* of its own, isDeleted = false and storageName = ''.
NoInstances == [maps |-> << >>, inst |-> << >>]

\* A class whose Map is shared by its instances (a static field).
constructShared(w) ==
  [maps |-> IF w.maps = << >> THEN << << >> >> ELSE w.maps,
   inst |-> Append(w.inst, [storage |-> 1, isDeleted |-> FALSE, storageName |-> ""])]

construct(w) ==
  [maps |-> Append(w.maps, << >>),
   inst |-> Append(w.inst, [storage |-> Len(w.maps) + 1, isDeleted |-> FALSE,
                            storageName |-> ""])]

\* --------------------------------------------------------- the operations
\* A method is a function of the adapter it is called on (this: its
\* fields, with the heap and the last value given to the caller) to what
\* it leaves: the fields and the heap after it, the value it returns (or
\* resolves with) and how it ends: "ok", "deleted" (the Error of
\* checkStorage) or "clone" (the DataCloneError).
Effect(st, del, name, h, val, out) ==
  [storage |-> st, isDeleted |-> del, storageName |-> name,
   heap |-> h, val |-> val, outcome |-> out]

This == Effect(storage, isDeleted, storageName, heap, res, outcome)

Return(st, del, name, h, val) == Effect(st, del, name, h, val, "ok")

\* A failed call changes nothing and gives the caller no value.
Throw(this, out) ==
  Effect(this.storage, this.isDeleted, this.storageName, this.heap, this.val, out)

checkStorage(this) == this.isDeleted

NameOf(setupName) == IF setupName = NoName THEN defaultStorageName ELSE setupName

\* Async
\* initAsync as it would be if it brought a deleted storage back.
initAsyncUndelete(this, setupName) ==
  Return(this.storage, FALSE, NameOf(setupName), this.heap, OkValue)

initAsync(this, setupName) ==
  Return(this.storage, this.isDeleted, NameOf(setupName), this.heap, OkValue)

\* getItemAsync without its checkStorage().
getItemAsyncUnguarded(this, key) ==
  LET c == structuredClone(this.heap, MapGet(this.storage, key))
  IN IF c.ok
     THEN Return(this.storage, this.isDeleted, this.storageName, c.heap, c.val)
     ELSE Throw(this, "clone")

\* getItemAsync with null for a missing entry (?? null).
getItemAsyncNullAbsent(this, key) ==
  IF checkStorage(this) THEN Throw(this, "deleted")
  ELSE IF ~MapHas(this.storage, key)
       THEN Return(this.storage, this.isDeleted, this.storageName, this.heap, Null)
       ELSE LET c == structuredClone(this.heap, MapGet(this.storage, key))
            IN IF c.ok
               THEN Return(this.storage, this.isDeleted, this.storageName, c.heap, c.val)
               ELSE Throw(this, "clone")

getItemAsync(this, key) ==
  IF checkStorage(this) THEN Throw(this, "deleted")
  ELSE LET c == structuredClone(this.heap, MapGet(this.storage, key))
       IN IF c.ok
          THEN Return(this.storage, this.isDeleted, this.storageName, c.heap, c.val)
          ELSE Throw(this, "clone")

\* A setItemAsync that writes first and calls checkStorage() last.
setItemAsyncCheckLast(this, key, value) ==
  LET c == structuredClone(this.heap, value)
  IN IF ~c.ok THEN Throw(this, "clone")
     ELSE IF checkStorage(this)
          THEN Effect(MapSet(this.storage, key, c.val), this.isDeleted,
                      this.storageName, c.heap, this.val, "deleted")
          ELSE Return(MapSet(this.storage, key, c.val), this.isDeleted,
                      this.storageName, c.heap, OkValue)

\* A setItemAsync that has not written yet when it hands out its promise
\* (the write waits behind an await).
setItemAsyncDeferred(this, key, value) ==
  IF checkStorage(this) THEN Throw(this, "deleted")
  ELSE LET c == structuredClone(this.heap, value)
       IN IF c.ok
          THEN Return(this.storage, this.isDeleted, this.storageName, c.heap, OkValue)
          ELSE Throw(this, "clone")

setItemAsync(this, key, value) ==
  IF checkStorage(this) THEN Throw(this, "deleted")
  ELSE LET c == structuredClone(this.heap, value)
       IN IF c.ok
          THEN Return(MapSet(this.storage, key, c.val), this.isDeleted,
                      this.storageName, c.heap, OkValue)
          ELSE Throw(this, "clone")

\* removeItemAsync without its storage.delete(key).
removeItemAsyncNoDelete(this, key) ==
  IF checkStorage(this) THEN Throw(this, "deleted")
  ELSE Return(this.storage, this.isDeleted, this.storageName, this.heap, OkValue)

removeItemAsync(this, key) ==
  IF checkStorage(this) THEN Throw(this, "deleted")
  ELSE Return(MapDelete(this.storage, key), this.isDeleted,
              this.storageName, this.heap, OkValue)

\* clearAsync without its checkStorage().
clearAsyncUnguarded(this) ==
  Return(MapClear(this.storage), this.isDeleted,
         this.storageName, this.heap, OkValue)

clearAsync(this) ==
  IF checkStorage(this) THEN Throw(this, "deleted")
  ELSE Return(MapClear(this.storage), this.isDeleted,
              this.storageName, this.heap, OkValue)

sizeAsync(this) ==
  IF checkStorage(this) THEN Throw(this, "deleted")
  ELSE Return(this.storage, this.isDeleted, this.storageName, this.heap,
              Num(MapSize(this.storage)))

keyAsync(this, index) ==
  IF checkStorage(this) THEN Throw(this, "deleted")
  ELSE Return(this.storage, this.isDeleted, this.storageName, this.heap,
              ArrayFromKey(this.storage, index))

deleteStorageAsync(this) ==
  IF checkStorage(this) THEN Throw(this, "deleted")
  ELSE Return(MapClear(this.storage), TRUE, this.storageName, this.heap, OkValue)

\* Sync
\* initSync as it would be with the checkStorage() of the other methods.
initSyncGuarded(this, setupName) ==
  IF checkStorage(this) THEN Throw(this, "deleted")
  ELSE Return(this.storage, this.isDeleted, NameOf(setupName), this.heap, OkValue)

initSync(this, setupName) ==
  Return(this.storage, this.isDeleted, NameOf(setupName), this.heap, OkValue)

\* getItemSync without structuredClone: the stored value itself.
getItemSyncNoClone(this, key) ==
  IF checkStorage(this) THEN Throw(this, "deleted")
  ELSE Return(this.storage, this.isDeleted, this.storageName, this.heap,
              MapGet(this.storage, key))

getItemSync(this, key) ==
  IF checkStorage(this) THEN Throw(this, "deleted")
  ELSE LET c == structuredClone(this.heap, MapGet(this.storage, key))
       IN IF c.ok
          THEN Return(this.storage, this.isDeleted, this.storageName, c.heap, c.val)
          ELSE Throw(this, "clone")

\* A setItemSync that drops the old entry before it copies the new value.
setItemSyncDeleteFirst(this, key, value) ==
  IF checkStorage(this) THEN Throw(this, "deleted")
  ELSE LET c == structuredClone(this.heap, value)
       IN IF c.ok
          THEN Return(MapSet(this.storage, key, c.val), this.isDeleted,
                      this.storageName, c.heap, Undefined)
          ELSE Effect(MapDelete(this.storage, key), this.isDeleted,
                      this.storageName, this.heap, this.val, "clone")

setItemSync(this, key, value) ==
  IF checkStorage(this) THEN Throw(this, "deleted")
  ELSE LET c == structuredClone(this.heap, value)
       IN IF c.ok
          THEN Return(MapSet(this.storage, key, c.val), this.isDeleted,
                      this.storageName, c.heap, Undefined)
          ELSE Throw(this, "clone")

\* A removeItemSync with the body of clearSync.
removeItemSyncClears(this, key) ==
  IF checkStorage(this) THEN Throw(this, "deleted")
  ELSE Return(MapClear(this.storage), this.isDeleted,
              this.storageName, this.heap, Undefined)

removeItemSync(this, key) ==
  IF checkStorage(this) THEN Throw(this, "deleted")
  ELSE Return(MapDelete(this.storage, key), this.isDeleted,
              this.storageName, this.heap, Undefined)

\* clearSync as it would be if it also marked the storage deleted.
clearSyncAlsoDeletes(this) ==
  IF checkStorage(this) THEN Throw(this, "deleted")
  ELSE Return(MapClear(this.storage), TRUE, this.storageName, this.heap, Undefined)

clearSync(this) ==
  IF checkStorage(this) THEN Throw(this, "deleted")
  ELSE Return(MapClear(this.storage), this.isDeleted,
              this.storageName, this.heap, Undefined)

sizeSync(this) ==
  IF checkStorage(this) THEN Throw(this, "deleted")
  ELSE Return(this.storage, this.isDeleted, this.storageName, this.heap,
              Num(MapSize(this.storage)))

\* The earlier Array.from(this.storage)[index][0]: no entry at the index
\* is a TypeError.
keySyncNoOptionalChain(this, index) ==
  IF checkStorage(this) THEN Throw(this, "deleted")
  ELSE IF index + 1 \in DOMAIN this.storage
       THEN Return(this.storage, this.isDeleted, this.storageName, this.heap,
                   ArrayFromKey(this.storage, index))
       ELSE Throw(this, "fault")

keySync(this, index) ==
  IF checkStorage(this) THEN Throw(this, "deleted")
  ELSE Return(this.storage, this.isDeleted, this.storageName, this.heap,
              ArrayFromKey(this.storage, index))

\* deleteStorageSync without its storage.clear().
deleteStorageSyncNoClear(this) ==
  IF checkStorage(this) THEN Throw(this, "deleted")
  ELSE Return(this.storage, TRUE, this.storageName, this.heap, Undefined)

deleteStorageSync(this) ==
  IF checkStorage(this) THEN Throw(this, "deleted")
  ELSE Return(MapClear(this.storage), TRUE, this.storageName, this.heap, Undefined)

\* ------------------------------------------------------------- the caller
\* The expression the caller writes for the value of a setItem: a primitive,
\* an object literal {x: p}, a nested literal {data: [p]}, or a variable
\* that holds the object of the last getItem (res) or of the last setItem
\* (arg).
Expr(kind, p) == [kind |-> kind, p |-> p]

SlotValues == {Null} \cup {Num(n) : n \in Nums}

Prims == {Undefined, Null, Func} \cup {Num(n) : n \in Nums}

PrimExprs == {Expr("prim", p) : p \in Prims}

ObjectExprs ==
  {Expr("object", p) : p \in SlotValues \cup {Func}}
    \cup {Expr("nested", p) : p \in SlotValues}
    \cup {Expr("res", Undefined), Expr("arg", Undefined), Expr("prim", Null)}

Defined(e) ==
  CASE e.kind = "res" -> IsRef(res)
    [] e.kind = "arg" -> IsRef(arg)
    [] OTHER -> TRUE

Eval(e) ==
  CASE e.kind = "prim" -> [val |-> e.p, heap |-> heap]
    [] e.kind = "object" ->
         LET a == NewAddr(heap)
         IN [val |-> Ref(a), heap |-> [heap EXCEPT ![a] = e.p]]
    [] e.kind = "nested" ->
         LET a == NewAddr(heap)
             h1 == [heap EXCEPT ![a] = e.p]
             b == NewAddr(h1)
         IN [val |-> Ref(b), heap |-> [h1 EXCEPT ![b] = Ref(a)]]
    [] e.kind = "res" -> [val |-> res, heap |-> heap]
    [] e.kind = "arg" -> [val |-> arg, heap |-> heap]

\* ---------------------------------------------------------------- actions
\* The last step: the operation, its form, its arguments, and for the
\* record whether the key had an entry and how many entries there were
\* when it was called.
Op(op, form, key, index, name) ==
  [op |-> op, form |-> form, key |-> key, index |-> index, name |-> name,
   had |-> MapHas(storage, key), before |-> MapSize(storage)]

NoKey == ""

\* The keys in insertion order after the call op that had the effect e.
Inserted(e, op) ==
  IF e.outcome # "ok" THEN inserted
  ELSE CASE op.op = "setItem" -> IF op.had THEN inserted ELSE Append(inserted, op.key)
         [] op.op = "removeItem" -> SelectSeq(inserted, LAMBDA k : k # op.key)
         [] op.op \in {"clear", "deleteStorage"} -> << >>
         [] OTHER -> inserted

\* A call of the adapter: the caller keeps the value it passed (arg) and
\* the value it was given back (res); objects nobody holds are reclaimed.
Call(e, value, op) ==
  LET order == Live(e.heap, <<value, e.val>> \o [i \in DOMAIN e.storage |-> e.storage[i].v])
  IN /\ storage' = [i \in DOMAIN e.storage |->
                      Entry(e.storage[i].k, Move(order, e.storage[i].v))]
     /\ isDeleted' = e.isDeleted
     /\ storageName' = e.storageName
     /\ asyncMode' = asyncMode
     /\ arg' = Move(order, value)
     /\ res' = Move(order, e.val)
     /\ outcome' = e.outcome
     /\ heap' = Compact(e.heap, order)
     /\ last' = op
     /\ inserted' = Inserted(e, op)
     /\ UNCHANGED <<asyncVars, twoVars>>

Init ==
  /\ storage = << >>
  /\ isDeleted = FALSE
  /\ storageName = ""
  /\ asyncMode = defaultAsyncMode
  /\ heap = [a \in Addrs |-> Free]
  /\ arg = Undefined
  /\ res = Undefined
  /\ outcome = "ok"
  /\ last = Op("new", "sync", NoKey, 0, NoName)
  /\ inserted = << >>
  /\ promises = << >>
  /\ jobs = << >>
  /\ settled = << >>
  /\ delivered = << >>
  /\ running = TRUE
  /\ maps = construct(construct(NoInstances)).maps
  /\ inst = construct(construct(NoInstances)).inst
  /\ target = 0

InitAsync ==
  \E n \in SetupNames : Call(initAsync(This, n), arg, Op("init", "async", NoKey, 0, n))

GetItemAsync(K) ==
  \E k \in K : Call(getItemAsync(This, k), arg, Op("getItem", "async", k, 0, NoName))

SetItemAsync(K, E) ==
  \E k \in K, e \in E :
    /\ Defined(e)
    /\ Call(setItemAsync([This EXCEPT !.heap = Eval(e).heap], k, Eval(e).val), Eval(e).val,
            Op("setItem", "async", k, 0, NoName))

RemoveItemAsync(K) ==
  \E k \in K : Call(removeItemAsync(This, k), arg, Op("removeItem", "async", k, 0, NoName))

ClearAsync == Call(clearAsync(This), arg, Op("clear", "async", NoKey, 0, NoName))

SizeAsync == Call(sizeAsync(This), arg, Op("size", "async", NoKey, 0, NoName))

KeyAsync == \E i \in Indexes : Call(keyAsync(This, i), arg, Op("key", "async", NoKey, i, NoName))

DeleteStorageAsync ==
  Call(deleteStorageAsync(This), arg, Op("deleteStorage", "async", NoKey, 0, NoName))

InitSync ==
  \E n \in SetupNames : Call(initSync(This, n), arg, Op("init", "sync", NoKey, 0, n))

GetItemSync(K) ==
  \E k \in K : Call(getItemSync(This, k), arg, Op("getItem", "sync", k, 0, NoName))

SetItemSync(K, E) ==
  \E k \in K, e \in E :
    /\ Defined(e)
    /\ Call(setItemSync([This EXCEPT !.heap = Eval(e).heap], k, Eval(e).val), Eval(e).val,
            Op("setItem", "sync", k, 0, NoName))

RemoveItemSync(K) ==
  \E k \in K : Call(removeItemSync(This, k), arg, Op("removeItem", "sync", k, 0, NoName))

ClearSync == Call(clearSync(This), arg, Op("clear", "sync", NoKey, 0, NoName))

SizeSync == Call(sizeSync(This), arg, Op("size", "sync", NoKey, 0, NoName))

KeySync == \E i \in Indexes : Call(keySync(This, i), arg, Op("key", "sync", NoKey, i, NoName))

DeleteStorageSync ==
  Call(deleteStorageSync(This), arg, Op("deleteStorage", "sync", NoKey, 0, NoName))

\* updatedValue.data = 42: between calls the caller writes into an object
\* it can reach.
Mutate ==
  \E root \in {"arg", "res"}, d \in 1..2, p \in SlotValues :
    LET c == Chain(heap, IF root = "arg" THEN arg ELSE res)
        h == [heap EXCEPT ![c[d]] = p]
        order == Live(h, <<arg, res>> \o [i \in DOMAIN storage |-> storage[i].v])
    IN /\ d <= Len(c)
       /\ heap[c[d]] # p
       /\ heap' = Compact(h, order)
       /\ storage' = [i \in DOMAIN storage |->
                        Entry(storage[i].k, Move(order, storage[i].v))]
       /\ arg' = Move(order, arg)
       /\ res' = Move(order, res)
       /\ last' = Op("mutate", "sync", NoKey, d, root)
       /\ UNCHANGED <<isDeleted, storageName, asyncMode, outcome, inserted>>
       /\ UNCHANGED <<asyncVars, twoVars>>

\* A caller of two keys that stores primitives.
Next ==
  \/ InitAsync \/ GetItemAsync(Keys) \/ SetItemAsync(Keys, PrimExprs)
  \/ RemoveItemAsync(Keys) \/ ClearAsync \/ SizeAsync \/ KeyAsync
  \/ DeleteStorageAsync
  \/ InitSync \/ GetItemSync(Keys) \/ SetItemSync(Keys, PrimExprs)
  \/ RemoveItemSync(Keys) \/ ClearSync \/ SizeSync \/ KeySync
  \/ DeleteStorageSync

Spec == Init /\ [][Next]_vars

\* A caller that stores objects (and null), keeps them and writes into
\* them.
NextCopy ==
  \/ GetItemAsync(Keys) \/ SetItemAsync(Keys, ObjectExprs)
  \/ RemoveItemAsync(Keys) \/ ClearAsync \/ DeleteStorageAsync
  \/ GetItemSync(Keys) \/ SetItemSync(Keys, ObjectExprs)
  \/ RemoveItemSync(Keys) \/ ClearSync \/ DeleteStorageSync
  \/ Mutate

SpecCopy == Init /\ [][NextCopy]_vars

\* ---------------------------------------------- async calls, not awaited
\* A call: the method and its arguments.
CallOf(op, key, value, index, name) ==
  [op |-> op, key |-> key, value |-> value, index |-> index, name |-> name]

Method(this, c, form) ==
  IF form = "sync"
  THEN CASE c.op = "init" -> initSync(this, c.name)
         [] c.op = "getItem" -> getItemSync(this, c.key)
         [] c.op = "setItem" -> setItemSync(this, c.key, c.value)
         [] c.op = "removeItem" -> removeItemSync(this, c.key)
         [] c.op = "clear" -> clearSync(this)
         [] c.op = "size" -> sizeSync(this)
         [] c.op = "key" -> keySync(this, c.index)
         [] c.op = "deleteStorage" -> deleteStorageSync(this)
  ELSE CASE c.op = "init" -> initAsync(this, c.name)
         [] c.op = "getItem" -> getItemAsync(this, c.key)
         [] c.op = "setItem" -> setItemAsync(this, c.key, c.value)
         [] c.op = "removeItem" -> removeItemAsync(this, c.key)
         [] c.op = "clear" -> clearAsync(this)
         [] c.op = "size" -> sizeAsync(this)
         [] c.op = "key" -> keyAsync(this, c.index)
         [] c.op = "deleteStorage" -> deleteStorageAsync(this)

\* How the async method's body ends: it throws (checkStorage or
\* structuredClone), it returns a plain value (deleteStorageAsync:
\* return new Ok()), or it returns a promise (Promise.resolve(...)).
BodyEnd(c, e) ==
  IF e.outcome # "ok" THEN "throw"
  ELSE IF c.op = "deleteStorage" THEN "value"
  ELSE "promise"

\* The calls a caller makes without awaiting them.
AsyncCalls ==
  {CallOf("init", NoKey, Undefined, 0, NoName),
   CallOf("getItem", "a", Undefined, 0, NoName),
   CallOf("setItem", "a", Num(MaxNum), 0, NoName),
   CallOf("setItem", "a", Func, 0, NoName),
   CallOf("removeItem", "a", Undefined, 0, NoName),
   CallOf("clear", NoKey, Undefined, 0, NoName),
   CallOf("size", NoKey, Undefined, 0, NoName),
   CallOf("key", NoKey, Undefined, 0, NoName),
   CallOf("deleteStorage", NoKey, Undefined, 0, NoName)}

Promise(c, e, state) == [call |-> c, outcome |-> e.outcome, val |-> e.val, state |-> state]

Job(kind, promise) == [kind |-> kind, promise |-> promise]

\* The promise p is settled: its then-callback becomes a job.
Settle(ps, p, js) ==
  [promises |-> [ps EXCEPT ![p].state = IF ps[p].outcome = "ok" THEN "fulfilled" ELSE "rejected"],
   jobs |-> Append(js, Job("then", p))]

\* const p = storage.xxxAsync(...); p.then(...): the body of the async
\* method runs to its end inside the call. A throw rejects the promise
\* and a plain value fulfils it there and then; a returned promise makes
\* the job that will take its state.
Invoke ==
  \E c \in AsyncCalls :
    LET e == Method(This, c, "async")
        p == Len(promises) + 1
        made == Append(promises, Promise(c, e, "pending"))
        now == Settle(made, p, jobs)
    IN /\ running
       /\ Len(promises) < MaxPending
       /\ storage' = e.storage
       /\ isDeleted' = e.isDeleted
       /\ storageName' = e.storageName
       /\ heap' = e.heap
       /\ arg' = c.value
       /\ last' = Op(c.op, "unawaited", c.key, c.index, c.name)
       /\ inserted' = Inserted(e, Op(c.op, "unawaited", c.key, c.index, c.name))
       /\ IF BodyEnd(c, e) = "promise"
          THEN /\ promises' = made
               /\ jobs' = Append(jobs, Job("thenable", p))
               /\ settled' = settled
          ELSE /\ promises' = now.promises
               /\ jobs' = now.jobs
               /\ settled' = Append(settled, p)
       /\ UNCHANGED <<asyncMode, res, outcome, delivered, running, twoVars>>

\* The caller's synchronous code ends: the microtasks run.
Yield ==
  /\ running
  /\ promises # << >>
  /\ running' = FALSE
  /\ last' = Op("yield", "sync", NoKey, 0, NoName)
  /\ UNCHANGED <<storage, isDeleted, storageName, asyncMode, heap, arg, res, outcome,
                 inserted, promises, jobs, settled, delivered, twoVars>>

\* One microtask. The thenable job calls then() of the returned promise,
\* which is fulfilled already, so the reaction is queued behind the jobs
\* there are; the reaction fulfils the method's promise; the then job hands
\* the result to the caller's callback.
Tick ==
  /\ ~running
  /\ jobs # << >>
  /\ LET j == Head(jobs)
         now == Settle(promises, j.promise, Tail(jobs))
     IN /\ CASE j.kind = "thenable" ->
                 /\ jobs' = Append(Tail(jobs), Job("reaction", j.promise))
                 /\ UNCHANGED <<promises, settled, delivered, res, outcome>>
             [] j.kind = "reaction" ->
                 /\ promises' = now.promises
                 /\ jobs' = now.jobs
                 /\ settled' = Append(settled, j.promise)
                 /\ UNCHANGED <<delivered, res, outcome>>
             [] j.kind = "then" ->
                 /\ jobs' = Tail(jobs)
                 /\ delivered' = Append(delivered, j.promise)
                 /\ res' = promises[j.promise].val
                 /\ outcome' = promises[j.promise].outcome
                 /\ UNCHANGED <<promises, settled>>
        /\ last' = Op("tick", "sync", NoKey, j.promise, NoName)
  /\ UNCHANGED <<storage, isDeleted, storageName, asyncMode, heap, arg, inserted,
                 running, twoVars>>

\* The microtask queue is empty: the caller goes on with new calls.
Resume ==
  /\ ~running
  /\ jobs = << >>
  /\ running' = TRUE
  /\ promises' = << >>
  /\ settled' = << >>
  /\ delivered' = << >>
  /\ last' = Op("resume", "sync", NoKey, 0, NoName)
  /\ UNCHANGED <<storage, isDeleted, storageName, asyncMode, heap, arg, res, outcome,
                 inserted, jobs, twoVars>>

NextAsync == Invoke \/ Yield \/ Tick \/ Resume

SpecAsync == Init /\ [][NextAsync]_vars

\* ------------------------------------------------------- two instances
\* The instance i of the instances n, whose Maps are m, as this.
InstanceOf(m, n, i) ==
  Effect(m[n[i].storage], n[i].isDeleted, n[i].storageName, heap, res, outcome)

\* The calls made on the two instances.
TwoCalls ==
  {CallOf("init", NoKey, Undefined, 0, NoName),
   CallOf("getItem", "a", Undefined, 0, NoName),
   CallOf("setItem", "a", Num(MaxNum), 0, NoName),
   CallOf("setItem", "b", Num(MaxNum), 0, NoName),
   CallOf("removeItem", "a", Undefined, 0, NoName),
   CallOf("clear", NoKey, Undefined, 0, NoName),
   CallOf("size", NoKey, Undefined, 0, NoName),
   CallOf("key", NoKey, Undefined, 0, NoName),
   CallOf("deleteStorage", NoKey, Undefined, 0, NoName)}

\* A call on one of the instances: the method works on the fields of its
\* this, and on the Map object its storage field refers to.
CallOn ==
  \E i \in DOMAIN inst, c \in TwoCalls, form \in {"sync", "async"} :
    LET this == InstanceOf(maps, inst, i)
        e == Method(this, c, form)
    IN /\ maps' = [maps EXCEPT ![inst[i].storage] = e.storage]
       /\ inst' = [inst EXCEPT ![i] = [storage |-> inst[i].storage,
                                        isDeleted |-> e.isDeleted,
                                        storageName |-> e.storageName]]
       /\ target' = i
       /\ heap' = e.heap
       /\ arg' = c.value
       /\ res' = e.val
       /\ outcome' = e.outcome
       /\ last' = [Op(c.op, form, c.key, c.index, c.name)
                     EXCEPT !.had = MapHas(this.storage, c.key),
                            !.before = MapSize(this.storage)]
       /\ UNCHANGED <<storage, isDeleted, storageName, asyncMode, inserted, asyncVars>>

NextTwo == CallOn

SpecTwo == Init /\ [][NextTwo]_vars

\* A caller that works with three keys and two values, and asks for the
\* keys by index.
Keys3 == Keys \cup {"c"}

OrderExprs == {Expr("prim", Null), Expr("prim", Num(MaxNum))}

NextOrder ==
  \/ SetItemAsync(Keys3, OrderExprs) \/ RemoveItemAsync(Keys3)
  \/ ClearAsync \/ SizeAsync \/ KeyAsync
  \/ SetItemSync(Keys3, OrderExprs) \/ RemoveItemSync(Keys3)
  \/ ClearSync \/ SizeSync \/ KeySync
  \/ DeleteStorageAsync \/ DeleteStorageSync

SpecOrder == Init /\ [][NextOrder]_vars

\* ----------------------------------------------------------------- claims
GuardedOps == {"getItem", "setItem", "removeItem", "clear", "size", "key"}

\* C1: once the storage is deleted, every getItem, setItem, removeItem,
\* clear, size and key, sync or async, ends with the deleted-storage error:
\* the call that was just made did, and so would any call made now.
C1_DeletedFails ==
  isDeleted =>
    /\ last.op \in GuardedOps => outcome = "deleted"
    /\ \A k \in Keys :
         /\ getItemSync(This, k).outcome = "deleted"
         /\ getItemAsync(This, k).outcome = "deleted"
         /\ removeItemSync(This, k).outcome = "deleted"
         /\ removeItemAsync(This, k).outcome = "deleted"
         /\ \A p \in Prims :
              /\ setItemSync(This, k, p).outcome = "deleted"
              /\ setItemAsync(This, k, p).outcome = "deleted"
    /\ clearSync(This).outcome = "deleted" /\ clearAsync(This).outcome = "deleted"
    /\ sizeSync(This).outcome = "deleted" /\ sizeAsync(This).outcome = "deleted"
    /\ \A i \in Indexes :
         keySync(This, i).outcome = "deleted" /\ keyAsync(This, i).outcome = "deleted"

\* An async getItem was called on a deleted storage and was rejected.
C1_Witness ==
  /\ isDeleted
  /\ last.op = "getItem" /\ last.form = "async"
  /\ outcome = "deleted"

\* C2: isDeleted starts false; once true it stays true under every step,
\* init included, and a deleteStorage on a deleted storage fails with the
\* deleted-storage error.
C2_DeletedPermanent ==
  /\ ~isDeleted
  /\ [][/\ isDeleted => isDeleted'
        /\ (isDeleted /\ last'.op = "deleteStorage") => outcome' = "deleted"]_vars

\* A second deleteStorage was called and failed.
C2_Witness ==
  /\ isDeleted
  /\ last.op = "deleteStorage"
  /\ outcome = "deleted"

\* C3: a deleted storage has no entries.
C3_DeletedEmpty == isDeleted => MapSize(storage) = 0 /\ MapKeys(storage) = {}

\* deleteStorage succeeded on a storage that had entries.
C3_Witness ==
  /\ isDeleted
  /\ last.op = "deleteStorage" /\ outcome = "ok"
  /\ last.before > 0

\* C4: init succeeds in every state, deleted or not, and changes only the
\* name: the entries, their order and isDeleted stay, and the name becomes
\* the one supplied, or the default name when none is supplied.
C4_InitFrame ==
  [][last'.op = "init" =>
       /\ outcome' = "ok" /\ res' = OkValue
       /\ storage' = storage
       /\ isDeleted' = isDeleted
       /\ storageName' = IF last'.name = NoName THEN defaultStorageName ELSE last'.name]_vars

\* An async init without a name was called on a deleted storage.
C4_Witness ==
  /\ last.op = "init" /\ last.form = "async" /\ last.name = NoName
  /\ isDeleted
  /\ outcome = "ok"
  /\ storageName = defaultStorageName

\* The adapter after the step.
Then == Effect(storage', isDeleted', storageName', heap', res', outcome')

\* What getItem(k) gives: the structure of its result, or its error.
ReadBack(this, k) ==
  LET g == getItemSync(this, k)
  IN IF g.outcome = "ok" THEN DeepVal(g.heap, g.val) ELSE <<V(g.outcome, 0, "")>>

Shared(h, vs, ws) == Reach(h, vs) \cap Reach(h, ws)

\* C5: a getItem(k) right after a successful setItem(k, v) succeeds with a
\* value of the structure of v that has no object in common with v; and
\* when the caller writes into the object a getItem returned, what
\* getItem gives for every key stays as it was.
C5_RoundTrip ==
  [][/\ (/\ last.op = "setItem" /\ outcome = "ok"
         /\ last'.op = "getItem" /\ last'.key = last.key)
          => /\ outcome' = "ok"
             /\ DeepVal(heap', res') = DeepVal(heap, arg)
             /\ Shared(heap', {res'}, {arg'}) = {}
     /\ (last'.op = "mutate" /\ last'.name = "res")
          => \A k \in Keys : ReadBack(Then, k) = ReadBack(This, k)]_vars

\* getItem returned a copy of the nested object the caller had stored: the
\* same structure in other objects.
C5_Witness ==
  /\ last.op = "getItem" /\ outcome = "ok"
  /\ IsRef(arg) /\ IsRef(res)
  /\ res # arg
  /\ Len(DeepVal(heap, res)) = 3
  /\ DeepEqual(heap, res, arg)
  /\ DeepVal(heap, MapGet(storage, last.key)) = DeepVal(heap, arg)

\* C6: no object of a stored value is an object the caller can reach
\* through the value it passed or the value it was given; a getItem result
\* shares no object with the value passed to setItem; and when the caller
\* writes into the value it passed, what getItem gives stays as it was.
C6_NoSharing ==
  /\ [](/\ Shared(heap, MapValues(storage), {arg, res}) = {}
        /\ (last.op = "getItem" /\ arg # res) => Shared(heap, {res}, {arg}) = {})
  /\ [][(last'.op = "mutate" /\ last'.name = "arg")
          => \A k \in Keys : ReadBack(Then, k) = ReadBack(This, k)]_vars

\* The caller wrote into the object it had passed to setItem, which now
\* differs from the stored one.
C6_Witness ==
  /\ last.op = "mutate" /\ last.name = "arg"
  /\ IsRef(arg)
  /\ MapHas(storage, "a") /\ IsRef(MapGet(storage, "a"))
  /\ Len(DeepVal(heap, arg)) = Len(DeepVal(heap, MapGet(storage, "a")))
  /\ ~DeepEqual(heap, arg, MapGet(storage, "a"))

\* C7 as stated: on a live storage getItem(k) gives undefined exactly when
\* k has no entry.
C7_AbsentIffNoEntry ==
  ~isDeleted =>
    /\ \A k \in Keys :
         /\ getItemSync(This, k).val = Undefined <=> ~MapHas(storage, k)
         /\ getItemAsync(This, k).val = Undefined <=> ~MapHas(storage, k)
    /\ (last.op = "getItem" /\ outcome = "ok") => (res = Undefined <=> ~last.had)

\* C7 as amended: on a live storage getItem(k) gives undefined exactly when
\* k has no entry or its entry holds undefined, which setItem stores as it
\* stores any value.
C7_AbsentIffNoEntryOrUndefined ==
  ~isDeleted =>
    /\ \A k \in Keys :
         /\ getItemSync(This, k).outcome = "ok"
         /\ getItemAsync(This, k).outcome = "ok"
         /\ getItemSync(This, k).val = Undefined
              <=> (~MapHas(storage, k) \/ MapGet(storage, k) = Undefined)
         /\ getItemAsync(This, k).val = Undefined
              <=> (~MapHas(storage, k) \/ MapGet(storage, k) = Undefined)
         /\ setItemSync(This, k, Undefined).outcome = "ok"
         /\ MapHas(setItemSync(This, k, Undefined).storage, k)
    /\ (last.op = "getItem" /\ outcome = "ok")
         => (res = Undefined <=> (~last.had \/ MapGet(storage, last.key) = Undefined))

\* getItem gave undefined for a key that has an entry, counted by size.
C7_Witness ==
  /\ ~isDeleted
  /\ last.op = "getItem" /\ outcome = "ok"
  /\ res = Undefined
  /\ MapHas(storage, last.key)
  /\ sizeSync(This).val = Num(1)

\* C8: on a live storage removeItem(k) succeeds; a getItem(k) after it, as
\* the next call or computed in the state it leaves, gives undefined; and
\* when k had no entry the entries and their order are unchanged.
C8_RemoveItem ==
  [][/\ (last'.op = "removeItem" /\ ~isDeleted)
          => /\ outcome' = "ok"
             /\ ~MapHas(storage', last'.key)
             /\ \A k \in Keys : last'.key = k => ReadBack(Then, k) = <<Undefined>>
             /\ ~MapHas(storage, last'.key) => storage' = storage
     /\ (/\ last.op = "removeItem" /\ outcome = "ok"
         /\ last'.op = "getItem" /\ last'.key = last.key)
          => outcome' = "ok" /\ res' = Undefined]_vars

\* removeItem was called for a key without an entry while the other key
\* had one.
C8_Witness ==
  /\ last.op = "removeItem" /\ outcome = "ok"
  /\ ~last.had
  /\ last.before = 1 /\ MapSize(storage) = 1

\* C9: a clear fails only on a deleted storage; after a clear that
\* succeeded the storage is not deleted, size gives 0, getItem gives
\* undefined for every key, and setItem and getItem succeed.
C9_Clear ==
  last.op = "clear" =>
    /\ outcome = "deleted" <=> isDeleted
    /\ outcome = "ok" =>
         /\ ~isDeleted
         /\ sizeSync(This).val = Num(0) /\ sizeAsync(This).val = Num(0)
         /\ \A k \in Keys :
              /\ getItemSync(This, k).outcome = "ok"
              /\ getItemSync(This, k).val = Undefined
              /\ getItemAsync(This, k).val = Undefined
              /\ setItemSync(This, k, Null).outcome = "ok"
              /\ setItemAsync(This, k, Null).outcome = "ok"

\* clear succeeded on a storage that had two entries.
C9_Witness ==
  /\ last.op = "clear" /\ outcome = "ok"
  /\ last.before = 2

\* C10: on a live storage size gives the number of distinct keys that
\* have an entry; a successful setItem adds one entry when the key had
\* none and leaves the number of entries when it had one.
C10_Size ==
  /\ ~isDeleted =>
       /\ sizeSync(This).val = Num(Cardinality({k \in Keys : MapHas(storage, k)}))
       /\ sizeAsync(This).val = Num(Cardinality({k \in Keys : MapHas(storage, k)}))
  /\ (last.op = "size" /\ outcome = "ok")
       => res = Num(Cardinality({k \in Keys : MapHas(storage, k)}))
  /\ (last.op = "setItem" /\ outcome = "ok")
       => MapSize(storage) = last.before + (IF last.had THEN 0 ELSE 1)
  /\ (last.op \in {"removeItem", "clear"} /\ outcome = "ok")
       => Cardinality({k \in Keys : MapHas(storage, k)}) = MapSize(storage)

\* setItem overwrote the entry of a key while both keys had entries.
C10_Witness ==
  /\ last.op = "setItem" /\ outcome = "ok"
  /\ last.had
  /\ last.before = 2 /\ MapSize(storage) = 2

\* C11: on a live storage key(i), sync or async, never fails; for
\* 0 <= i < size() it gives the key whose entry was the (i+1)-th to be
\* made among the entries there are, and for every other index (negative,
\* or size() and beyond, so every index on an empty storage) it gives
\* undefined.
C11_KeyByIndex ==
  /\ ~isDeleted =>
       \A i \in Indexes :
         /\ keySync(This, i).outcome = "ok"
         /\ keyAsync(This, i).outcome = "ok"
         /\ keySync(This, i).val
              = (IF 0 <= i /\ i < sizeSync(This).val.n
                 THEN Str(inserted[i + 1]) ELSE Undefined)
         /\ keyAsync(This, i).val
              = (IF 0 <= i /\ i < sizeAsync(This).val.n
                 THEN Str(inserted[i + 1]) ELSE Undefined)
  /\ (last.op = "key" /\ ~isDeleted) =>
       /\ outcome = "ok"
       /\ res = (IF 0 <= last.index /\ last.index < Len(inserted)
                 THEN Str(inserted[last.index + 1]) ELSE Undefined)

\* key(2) gave undefined on a storage of two entries, b made before a.
C11_Witness ==
  /\ last.op = "key" /\ outcome = "ok"
  /\ last.index = 2 /\ res = Undefined
  /\ inserted = <<"b", "a">>
  /\ keySync(This, 0).val = Str("b")

\* The two effects leave the same fields and end the same way: both
\* return, or both fail with the same error.
SameState(s, a) ==
  /\ s.storage = a.storage /\ s.isDeleted = a.isDeleted
  /\ s.storageName = a.storageName /\ s.heap = a.heap
  /\ s.outcome = a.outcome

SameResult(s, a) == SameState(s, a) /\ (s.outcome = "ok" => s.val = a.val)

\* The sync form returns nothing where the async form resolves with Ok.
VoidAndOk(s, a) ==
  SameState(s, a) /\ (s.outcome = "ok" => s.val = Undefined /\ a.val = OkValue)

\* C12 as stated: in every reachable state, live or deleted, the sync and
\* the async form of every operation, given the same arguments, give equal
\* values or fail with the same error, and leave the same entries, key
\* order, name and deleted flag.
C12_SyncAsyncIdentical ==
  /\ \A n \in SetupNames : SameResult(initSync(This, n), initAsync(This, n))
  /\ \A k \in Keys :
       /\ SameResult(getItemSync(This, k), getItemAsync(This, k))
       /\ SameResult(removeItemSync(This, k), removeItemAsync(This, k))
       /\ \A p \in Prims : SameResult(setItemSync(This, k, p), setItemAsync(This, k, p))
  /\ SameResult(clearSync(This), clearAsync(This))
  /\ SameResult(sizeSync(This), sizeAsync(This))
  /\ \A i \in Indexes : SameResult(keySync(This, i), keyAsync(This, i))
  /\ SameResult(deleteStorageSync(This), deleteStorageAsync(This))

\* C12, amended: in every reachable state, live or deleted, the two forms
\* of every operation fail with the same error or both succeed, and leave
\* the same entries, key order, name and deleted flag; init, getItem, size
\* and key give equal values, while a successful setItem, removeItem,
\* clear and deleteStorage returns nothing in the sync form and resolves
\* with Ok in the async form.
C12_SyncAsyncAgree ==
  /\ \A n \in SetupNames : SameResult(initSync(This, n), initAsync(This, n))
  /\ \A k \in Keys :
       /\ SameResult(getItemSync(This, k), getItemAsync(This, k))
       /\ VoidAndOk(removeItemSync(This, k), removeItemAsync(This, k))
       /\ \A p \in Prims : VoidAndOk(setItemSync(This, k, p), setItemAsync(This, k, p))
  /\ VoidAndOk(clearSync(This), clearAsync(This))
  /\ SameResult(sizeSync(This), sizeAsync(This))
  /\ \A i \in Indexes : SameResult(keySync(This, i), keyAsync(This, i))
  /\ VoidAndOk(deleteStorageSync(This), deleteStorageAsync(This))

\* An async setItem resolved with Ok on a storage of two entries, where
\* the sync form returns undefined and leaves the same entries.
C12_Witness ==
  /\ last.op = "setItem" /\ last.form = "async" /\ outcome = "ok"
  /\ res = OkValue
  /\ MapSize(storage) = 2
  /\ setItemSync(This, last.key, arg).val = Undefined
  /\ setItemSync(This, last.key, arg).storage = storage

\* C13: when an async method hands out its promise, its whole effect on
\* the entries and the deleted flag is there already, the same as the
\* sync method's effect on the state the call found; nothing happens to
\* the adapter when the promise is settled or its result handed over. So
\* a call made next, with the first promise still pending, works on that
\* effect: it reads the value just set, and fails once deleteStorageAsync
\* was called.
C13_AppliedAtCall ==
  /\ [][/\ last'.form = "unawaited" =>
            LET made == promises'[Len(promises')]
                e == Method(This, made.call, "sync")
            IN /\ Len(promises') = Len(promises) + 1
               /\ made.call.op = last'.op
               /\ storage' = e.storage
               /\ isDeleted' = e.isDeleted
               /\ storageName' = e.storageName
               /\ made.outcome = e.outcome
        /\ last'.op \in {"yield", "tick", "resume"} =>
            /\ storage' = storage
            /\ isDeleted' = isDeleted
            /\ storageName' = storageName]_vars
  /\ [](\A p \in DOMAIN promises, q \in DOMAIN promises :
          (p + 1 = q /\ promises[p].outcome = "ok") =>
            /\ (promises[p].call.op = "setItem" /\ promises[q].call.op = "getItem"
                 /\ promises[p].call.key = promises[q].call.key)
                  => promises[q].val = promises[p].call.value
            /\ (promises[p].call.op = "deleteStorage" /\ promises[q].call.op \in GuardedOps)
                  => promises[q].outcome = "deleted")

\* The caller has called setItemAsync and then getItemAsync without
\* awaiting; both promises are pending and the second holds the value.
C13_Witness ==
  /\ running
  /\ Len(promises) = 2
  /\ promises[1].call.op = "setItem" /\ promises[1].state = "pending"
  /\ promises[2].call.op = "getItem" /\ promises[2].state = "pending"
  /\ promises[2].val = Num(MaxNum)
  /\ settled = << >>

\* The keys of the entries, in the order of key(index).
KeySeq(m) == [i \in DOMAIN m |-> m[i].k]

\* The step left the entries as they were: the same keys in the same
\* order, each read back as the same value, and the same deleted flag.
StoreUnchanged ==
  /\ KeySeq(storage') = KeySeq(storage)
  /\ \A k \in Keys : ReadBack(Then, k) = ReadBack(This, k)
  /\ isDeleted' = isDeleted

Cloneable(h, v) == structuredClone(h, v).ok

\* C14 as stated: every setItem of a value that cannot be copied (a
\* function, or an object that holds one) fails with the clone error and
\* leaves the entries as they were.
C14_CloneErrorAlways ==
  [][(last'.op = "setItem" /\ ~Cloneable(heap', arg'))
       => (outcome' = "clone" /\ StoreUnchanged)]_vars

\* C14, amended: on a live storage every setItem of a value that cannot be
\* copied fails with the clone error, in both forms, and on a deleted
\* storage with the deleted-storage error; either way the entries are as
\* they were: the old entry of the key keeps its value, no entry is made,
\* size and key order stay.
C14_CloneError ==
  [][(last'.op = "setItem" /\ ~Cloneable(heap', arg'))
       => /\ outcome' = (IF isDeleted THEN "deleted" ELSE "clone")
          /\ StoreUnchanged
          /\ \A k \in Keys :
               /\ setItemSync(Then, k, Func).outcome = outcome'
               /\ setItemAsync(Then, k, Func).outcome = outcome'
               /\ setItemSync(Then, k, Func).storage = storage'
               /\ setItemAsync(Then, k, Func).storage = storage']_vars

\* setItem was given an object that holds a function, for a key that had
\* an entry, on a live storage, and failed with the clone error.
C14_Witness ==
  /\ last.op = "setItem" /\ outcome = "clone"
  /\ last.had /\ MapHas(storage, last.key)
  /\ IsRef(arg) /\ ~Cloneable(heap, arg)
  /\ ~isDeleted
  /\ last.before = 2

\* C15: the two instances have each a Map of their own, and a call on
\* one instance leaves the other as it was: its entries, its size, its key
\* order, its name and its deleted flag, as fields and as its own methods
\* report them.
C15_Isolated ==
  /\ [](\A i \in DOMAIN inst, j \in DOMAIN inst :
          i # j => inst[i].storage # inst[j].storage)
  /\ [][\A j \in DOMAIN inst :
          j # target' =>
            LET was == InstanceOf(maps, inst, j)
                is == InstanceOf(maps', inst', j)
            IN /\ is.storage = was.storage
               /\ is.isDeleted = was.isDeleted
               /\ is.storageName = was.storageName
               /\ sizeSync(is).outcome = sizeSync(was).outcome
               /\ sizeSync(is).outcome = "ok" => sizeSync(is).val = sizeSync(was).val
               /\ \A x \in Indexes :
                    keySync(is, x).outcome = "ok" => keySync(is, x).val = keySync(was, x).val
               /\ \A k \in Keys :
                    /\ getItemSync(is, k).outcome = getItemSync(was, k).outcome
                    /\ getItemSync(is, k).outcome = "ok"
                         => getItemSync(is, k).val = getItemSync(was, k).val]_vars

\* The first instance was deleted while the second holds two entries, b
\* before a, and is live.
C15_Witness ==
  /\ target = 1
  /\ last.op = "deleteStorage" /\ outcome = "ok" /\ last.before = 1
  /\ inst[1].isDeleted /\ ~inst[2].isDeleted
  /\ KeySeq(maps[inst[2].storage]) = <<"b", "a">>
  /\ maps[inst[1].storage] = << >>

\* The positions of a storage of up to three entries.
Positions == 0..(Cardinality(Keys3) - 1)

\* C16: a removeItem(k) of a key that key(p) gave takes away that entry
\* only: size() is one less, key(q) for q < p gives what it gave, key(q - 1)
\* for q > p gives what key(q) gave, and k has no entry.
C16_RemoveShifts ==
  [][(last'.op = "removeItem" /\ outcome' = "ok" /\ last'.had) =>
       \E p \in Positions :
         /\ keySync(This, p).val = Str(last'.key)
         /\ sizeSync(Then).val = Num(sizeSync(This).val.n - 1)
         /\ \A q \in Positions :
              /\ q < p => keySync(Then, q).val = keySync(This, q).val
              /\ q > p => keySync(Then, q - 1).val = keySync(This, q).val
         /\ \A q \in Positions : keySync(Then, q).val # Str(last'.key)
         /\ keySync(Then, sizeSync(Then).val.n).val = Undefined]_vars

\* removeItem(b) on a storage of three entries left c at 0 and a at 1.
C16_Witness ==
  /\ last.op = "removeItem" /\ outcome = "ok"
  /\ last.key = "b" /\ last.had /\ last.before = 3
  /\ sizeSync(This).val = Num(2)
  /\ keySync(This, 0).val = Str("c") /\ keySync(This, 1).val = Str("a")

\* The promises q are in the order in which they were made.
InCallOrder(q) == \A i \in DOMAIN q, j \in DOMAIN q : i < j => q[i] < q[j]

\* C17: the promises of async calls made one after the other without
\* awaiting are settled in the order of the calls, and their results reach
\* the caller in that order, for every pair of methods, deleteStorageAsync
\* and calls that fail with the deleted-storage error included.
C17_SettleInCallOrder ==
  /\ InCallOrder(settled)
  /\ InCallOrder(delivered)

\* key(index) gives j at a lower index than l.
Before(this, j, l) ==
  \E x \in Positions, y \in Positions :
    /\ x < y
    /\ keySync(this, x).val = Str(j)
    /\ keySync(this, y).val = Str(l)

\* C18: a setItem(k, v) or removeItem(k), whether it returns or fails,
\* leaves the deleted flag and every other key j as they were: getItem(j)
\* gives what it gave, and j is before or after each other remaining key
\* in key(index) order as it was.
C18_OnlyThatKey ==
  [][last'.op \in {"setItem", "removeItem"} =>
       /\ isDeleted' = isDeleted
       /\ \A j \in Keys3 \ {last'.key} :
            /\ getItemSync(Then, j).outcome = getItemSync(This, j).outcome
            /\ getItemSync(Then, j).outcome = "ok" =>
                 /\ getItemSync(Then, j).val = getItemSync(This, j).val
                 /\ getItemAsync(Then, j).val = getItemAsync(This, j).val
            /\ \A l \in Keys3 \ {last'.key} :
                 Before(Then, j, l) <=> Before(This, j, l)]_vars

\* removeItem(a) on a storage of three entries left c, holding null,
\* before b, holding a number.
C18_Witness ==
  /\ last.op = "removeItem" /\ outcome = "ok"
  /\ last.key = "a" /\ last.had /\ last.before = 3
  /\ Before(This, "c", "b")
  /\ getItemSync(This, "c").val = Null
  /\ getItemSync(This, "b").val = Num(MaxNum)

\* C19: a setItem on a key that has an entry gives the key the new value
\* and leaves key(index) as it was at every index; a setItem(k, v) that
\* follows a removeItem(k) puts k at the index size() - 1, behind the keys
\* that remained, which keep their indexes.
C19_OverwriteKeepsPlace ==
  [][/\ (last'.op = "setItem" /\ outcome' = "ok" /\ last'.had) =>
          /\ \A x \in Positions : keySync(Then, x).val = keySync(This, x).val
          /\ sizeSync(Then).val = sizeSync(This).val
          /\ getItemSync(Then, last'.key).val = arg'
     /\ (/\ last.op = "removeItem" /\ outcome = "ok"
         /\ last'.op = "setItem" /\ outcome' = "ok" /\ last'.key = last.key) =>
          /\ sizeSync(Then).val = Num(sizeSync(This).val.n + 1)
          /\ keySync(Then, sizeSync(Then).val.n - 1).val = Str(last'.key)
          /\ \A x \in Positions :
               x < sizeSync(This).val.n => keySync(Then, x).val = keySync(This, x).val
          /\ getItemSync(Then, last'.key).val = arg']_vars

\* setItem(a, null) on a storage of three entries with a at index 0: a is
\* still at index 0 and holds null.
C19_Witness ==
  /\ last.op = "setItem" /\ outcome = "ok"
  /\ last.key = "a" /\ last.had /\ last.before = 3
  /\ arg = Null
  /\ keySync(This, 0).val = Str("a")
  /\ keySync(This, 2).val = Str("b")
  /\ getItemSync(This, "a").val = Null
  /\ sizeSync(This).val = Num(3)

\* The effect e leaves the fields of this as they are.
NoChange(this, e) ==
  /\ e.storage = this.storage
  /\ e.isDeleted = this.isDeleted
  /\ e.storageName = this.storageName

\* C20: getItem, size and key, sync and async, leave the entries, the key
\* order, the name and the deleted flag as they are, whether they return
\* or fail; and every call that fails with the deleted-storage error
\* leaves them as they are.
C20_ReadsAndFailuresKeepState ==
  /\ [](/\ \A k \in Keys :
             /\ NoChange(This, getItemSync(This, k))
             /\ NoChange(This, getItemAsync(This, k))
             /\ removeItemSync(This, k).outcome = "deleted"
                  => NoChange(This, removeItemSync(This, k))
             /\ removeItemAsync(This, k).outcome = "deleted"
                  => NoChange(This, removeItemAsync(This, k))
             /\ \A p \in Prims :
                  /\ setItemSync(This, k, p).outcome = "deleted"
                       => NoChange(This, setItemSync(This, k, p))
                  /\ setItemAsync(This, k, p).outcome = "deleted"
                       => NoChange(This, setItemAsync(This, k, p))
        /\ NoChange(This, sizeSync(This)) /\ NoChange(This, sizeAsync(This))
        /\ \A i \in Indexes :
             NoChange(This, keySync(This, i)) /\ NoChange(This, keyAsync(This, i))
        /\ clearSync(This).outcome = "deleted" => NoChange(This, clearSync(This))
        /\ clearAsync(This).outcome = "deleted" => NoChange(This, clearAsync(This))
        /\ deleteStorageSync(This).outcome = "deleted"
             => NoChange(This, deleteStorageSync(This))
        /\ deleteStorageAsync(This).outcome = "deleted"
             => NoChange(This, deleteStorageAsync(This)))
  /\ [][(last'.op \in {"getItem", "size", "key"} \/ outcome' = "deleted") =>
         /\ NoChange(This, Then)
         /\ inserted' = inserted]_vars

\* A removeItem failed on a deleted storage that has the name it was
\* given by init.
C20_Witness ==
  /\ isDeleted
  /\ last.op = "removeItem" /\ outcome = "deleted"
  /\ storageName = "custom"
  /\ storage = << >>
====
